---- MODULE Spec2Model ----
(***************************************************************************)
(* EZLang: the interpreter that src/script.js loads into Pyodide (lexer,   *)
(* recursive-descent parser, tree-walking interpreter, run_ezlang) and the *)
(* page glue around it (the Pyodide onload handler, runCode, loadExample). *)
(*                                                                         *)
(* Source text is a sequence of one-character strings.  Python objects     *)
(* are records tagged with their type: PyInt, PyStr (a sequence of         *)
(* characters) and PyBool.  What str() and f-strings produce (display      *)
(* strings, exception messages, the value run_ezlang returns) are TLA+     *)
(* strings.                                                                *)
(***************************************************************************)
EXTENDS Integers, Sequences, FiniteSets, TLC

VARIABLES
  phase,      \* where the current run_ezlang call stands
  code,       \* run_ezlang's argument
  tokens,     \* tokens = lex(code)
  pos,        \* parser.pos when parse() ended
  ast,        \* ast = parser.parse()
  vars,       \* interpreter.vars
  output,     \* interpreter.output
  stack,      \* statements still to execute: one frame per active for-loop
  exc,        \* the exception in flight or caught (NoExc when none)
  result,     \* what run_ezlang returned
  last,       \* history: argument and result of the previous completed call
  onloadPc,   \* position of pyodideScript.onload
  pyodide,    \* the page's `pyodide` variable is set
  defined,    \* run_ezlang is defined in the Python globals
  jobs,       \* runPythonAsync calls not yet executed, in call order
  running,    \* the runPythonAsync call being executed
  editor,     \* editor.value
  display     \* what the output element shows

vars_py   == <<phase, code, tokens, pos, ast, vars, output, stack, exc, result, last>>
vars_page == <<onloadPc, pyodide, defined, jobs, running, editor, display>>
allvars   == <<phase, code, tokens, pos, ast, vars, output, stack, exc, result, last,
               onloadPc, pyodide, defined, jobs, running, editor, display>>

----------------------------------------------------------------------------
(* Python objects and text                                                 *)

PyInt(n)  == [ty |-> "int", i |-> n]
PyStr(cs) == [ty |-> "str", s |-> cs]
PyBool(b) == [ty |-> "bool", b |-> b]

RECURSIVE StrOf(_)
StrOf(cs) == IF cs = <<>> THEN "" ELSE Head(cs) \o StrOf(Tail(cs))

Digits == <<"0", "1", "2", "3", "4", "5", "6", "7", "8", "9">>
DigitSet == {Digits[k] : k \in 1..10}
DigitVal(c) == (CHOOSE k \in 1..10 : Digits[k] = c) - 1

LetterSet ==
  {"a","b","c","d","e","f","g","h","i","j","k","l","m","n","o","p","q","r","s",
   "t","u","v","w","x","y","z","A","B","C","D","E","F","G","H","I","J","K","L",
   "M","N","O","P","Q","R","S","T","U","V","W","X","Y","Z","_"}
SpaceSet == {" ", "\t", "\n"}

\* int(value) on a run of decimal digits
RECURSIVE int(_)
int(cs) == IF cs = <<>> THEN 0
           ELSE 10 * int(SubSeq(cs, 1, Len(cs) - 1)) + DigitVal(cs[Len(cs)])

\* str(n) for a Python int
RECURSIVE StrNat(_)
StrNat(n) == IF n < 10 THEN Digits[n + 1]
             ELSE StrNat(n \div 10) \o Digits[(n % 10) + 1]
StrInt(n) == IF n < 0 THEN "-" \o StrNat(0 - n) ELSE StrNat(n)

\* repr(s) for a Python str: quotes, and escapes for backslash, newline, tab
ReprChar(c, q) == IF c = "\\" THEN "\\\\"
                  ELSE IF c = "\n" THEN "\\n"
                  ELSE IF c = "\t" THEN "\\t"
                  ELSE IF c = q THEN "\\" \o c
                  ELSE c
RECURSIVE ReprChars(_, _)
ReprChars(cs, q) == IF cs = <<>> THEN ""
                    ELSE ReprChar(Head(cs), q) \o ReprChars(Tail(cs), q)
HasChar(cs, c) == \E k \in 1..Len(cs) : cs[k] = c
ReprStr(cs) == LET q == IF HasChar(cs, "'") /\ ~HasChar(cs, "\"") THEN "\"" ELSE "'"
               IN q \o ReprChars(cs, q) \o q

----------------------------------------------------------------------------
(* Lexer                                                                   *)

\* the kinds of token_specs, in the order the alternation tries them
token_specs == <<"NUMBER", "STRING", "PRINT", "IF", "LBRACE", "RBRACE", "ASSIGN",
                 "OP", "COMPARE", "LPAREN", "RPAREN", "IDENTIFIER", "SKIP">>

At(src, p) == IF p >= 1 /\ p <= Len(src) THEN src[p] ELSE ""

\* last index of the greedy run of characters of S that starts at p (0: none)
RunEnd(src, p, S) ==
  IF At(src, p) \notin S THEN 0
  ELSE CHOOSE q \in p..Len(src) :
         /\ \A r \in p..q : src[r] \in S
         /\ At(src, q + 1) \notin S

\* last index of the literal lit at p (0: no match)
LitEnd(src, p, lit) ==
  IF \A k \in 1..Len(lit) : At(src, p + k - 1) = lit[k] THEN p + Len(lit) - 1 ELSE 0

\* last index of the match of one pattern of token_specs at p (0: no match)
PatternEnd(kind, src, p) ==
  CASE kind = "NUMBER"     -> RunEnd(src, p, DigitSet)
    [] kind = "STRING"     ->
         IF At(src, p) = "\"" /\ \E q \in (p + 1)..Len(src) : src[q] = "\""
         THEN CHOOSE q \in (p + 1)..Len(src) :
                src[q] = "\"" /\ \A r \in (p + 1)..(q - 1) : src[r] # "\""
         ELSE 0
    [] kind = "PRINT"      -> LitEnd(src, p, <<"p", "r", "i", "n", "t">>)
    [] kind = "IF"         -> LitEnd(src, p, <<"i", "f">>)
    [] kind = "LBRACE"     -> LitEnd(src, p, <<"{">>)
    [] kind = "RBRACE"     -> LitEnd(src, p, <<"}">>)
    [] kind = "ASSIGN"     -> LitEnd(src, p, <<"=">>)
    [] kind = "OP"         -> IF At(src, p) \in {"+", "-", "*", "/"} THEN p ELSE 0
    [] kind = "COMPARE"    ->
         IF At(src, p) \in {"<", ">"}
         THEN (IF At(src, p + 1) = "=" THEN p + 1 ELSE p)
         ELSE LitEnd(src, p, <<"=", "=">>)
    [] kind = "LPAREN"     -> LitEnd(src, p, <<"(">>)
    [] kind = "RPAREN"     -> LitEnd(src, p, <<")">>)
    [] kind = "IDENTIFIER" -> RunEnd(src, p, LetterSet)
    [] kind = "SKIP"       -> RunEnd(src, p, SpaceSet)

\* the match of token_regex at p: the first alternative that matches
MatchAt(src, p) ==
  LET hits == {k \in 1..Len(token_specs) : PatternEnd(token_specs[k], src, p) # 0}
  IN IF hits = {} THEN [kind |-> "NONE", end |-> 0]
     ELSE LET k == CHOOSE k \in hits : \A j \in hits : k <= j
          IN [kind |-> token_specs[k], end |-> PatternEnd(token_specs[k], src, p)]

\* re.finditer when nothing matches at p: the search goes on at the next character
finditer_stops(src, p) == Len(src) + 1
finditer_resume(src, p) == p + 1

\* the token appended for a match
Token(kind, text) ==
  IF kind = "NUMBER" THEN [kind |-> kind, value |-> PyInt(int(text))]
  ELSE IF kind = "STRING" THEN [kind |-> kind, value |-> PyStr(SubSeq(text, 2, Len(text) - 1))]
  ELSE [kind |-> kind, value |-> PyStr(text)]

RECURSIVE lexFrom(_, _)
lexFrom(src, p) ==
  IF p > Len(src) THEN <<>>
  ELSE LET m == MatchAt(src, p)
       IN IF m.kind = "NONE" THEN lexFrom(src, finditer_resume(src, p))
          ELSE IF m.kind = "SKIP" THEN lexFrom(src, m.end + 1)
          ELSE <<Token(m.kind, SubSeq(src, p, m.end))>> \o lexFrom(src, m.end + 1)

lex(src) == lexFrom(src, 1)

----------------------------------------------------------------------------
(* Parser.  A parse function maps the token list and parser.pos to          *)
(* [ok, node, pos] when it returns and to [ok, pos, exc] when it raises.    *)

NoExc == [type |-> "", msg |-> ""]
Raise(type, msg) == [type |-> type, msg |-> msg]
SyntaxError(msg) == Raise("SyntaxError", msg)
\* tokens[pos] with pos past the end of the list
IndexError == Raise("IndexError", "list index out of range")

Ok(node, p) == [ok |-> TRUE, node |-> node, pos |-> p]
Fail(e, p)  == [ok |-> FALSE, pos |-> p, exc |-> e]

\* repr of a token, the tuple (kind, value)
ReprValue(v) == IF v.ty = "int" THEN StrInt(v.i) ELSE ReprStr(v.s)
ReprToken(t) == "('" \o t.kind \o "', " \o ReprValue(t.value) \o ")"

peek(ts, p, kind) == p < Len(ts) /\ ts[p + 1].kind = kind

peek_next(ts, p, kind) == p + 1 < Len(ts) /\ ts[p + 2].kind = kind

current(ts, p) == ts[p + 1]

consume(ts, p, kind) ==
  IF peek(ts, p, kind) THEN Ok(ts[p + 1], p + 1)
  ELSE IF p < Len(ts)
       THEN Fail(SyntaxError("Expected " \o kind \o ", got " \o ts[p + 1].kind), p)
       ELSE Fail(IndexError, p)

\* raise SyntaxError(f"<prefix>{self.tokens[self.pos]}")
RaiseAtToken(prefix, ts, p) ==
  IF p < Len(ts) THEN Fail(SyntaxError(prefix \o ReprToken(ts[p + 1])), p)
  ELSE Fail(IndexError, p)

\* what follows a call that may raise: K(r) when r returned, r itself when it raised
Then(r, K(_)) == IF r.ok THEN K(r) ELSE r

BinaryOp(op, left, right) == [ty |-> "bin", op |-> op, left |-> left, right |-> right]

RECURSIVE parse_expr(_, _), parse_stmt(_, _)

parse_primary(ts, p) ==
  IF peek(ts, p, "NUMBER")
  THEN Then(consume(ts, p, "NUMBER"), LAMBDA c : Ok(c.node.value, c.pos))
  ELSE IF peek(ts, p, "STRING")
  THEN Then(consume(ts, p, "STRING"), LAMBDA c : Ok(c.node.value, c.pos))
  ELSE IF peek(ts, p, "IDENTIFIER")
  THEN Then(consume(ts, p, "IDENTIFIER"),
            LAMBDA c : Ok([ty |-> "var", name |-> c.node.value.s], c.pos))
  ELSE IF peek(ts, p, "LPAREN")
  THEN Then(consume(ts, p, "LPAREN"), LAMBDA lp :
       Then(parse_expr(ts, lp.pos), LAMBDA node :
       Then(consume(ts, node.pos, "RPAREN"), LAMBDA rp :
       Ok(node.node, rp.pos))))
  ELSE RaiseAtToken("Unexpected token: ", ts, p)

\* the while loop of parse_mul_div, with `node` built so far
RECURSIVE mul_div_loop(_, _, _)
mul_div_loop(ts, node, p) ==
  IF peek(ts, p, "OP") /\ current(ts, p).value.s \in {<<"*">>, <<"/">>}
  THEN Then(consume(ts, p, "OP"), LAMBDA op :
       Then(parse_primary(ts, op.pos), LAMBDA r :
       mul_div_loop(ts, BinaryOp(op.node.value.s, node, r.node), r.pos)))
  ELSE Ok(node, p)

parse_mul_div(ts, p) ==
  Then(parse_primary(ts, p), LAMBDA l : mul_div_loop(ts, l.node, l.pos))

\* the while loop of parse_add_sub, with `node` built so far
RECURSIVE add_sub_loop(_, _, _)
add_sub_loop(ts, node, p) ==
  IF peek(ts, p, "OP") /\ current(ts, p).value.s \in {<<"+">>, <<"-">>}
  THEN Then(consume(ts, p, "OP"), LAMBDA op :
       Then(parse_mul_div(ts, op.pos), LAMBDA r :
       add_sub_loop(ts, BinaryOp(op.node.value.s, node, r.node), r.pos)))
  ELSE Ok(node, p)

parse_add_sub(ts, p) ==
  Then(parse_mul_div(ts, p), LAMBDA l : add_sub_loop(ts, l.node, l.pos))

\* the `if self.peek('COMPARE')` of parse_compare, with `left` parsed
compare_rest(ts, left, p) ==
  IF peek(ts, p, "COMPARE")
  THEN Then(consume(ts, p, "COMPARE"), LAMBDA op :
       Then(parse_add_sub(ts, op.pos), LAMBDA right :
       Ok(BinaryOp(op.node.value.s, left, right.node), right.pos)))
  ELSE Ok(left, p)

parse_compare(ts, p) ==
  Then(parse_add_sub(ts, p), LAMBDA left : compare_rest(ts, left.node, left.pos))

parse_expr(ts, p) == parse_compare(ts, p)

parse_print(ts, p) ==
  Then(consume(ts, p, "PRINT"), LAMBDA c :
  Then(parse_expr(ts, c.pos), LAMBDA expr :
  Ok([ty |-> "print", expr |-> expr.node], expr.pos)))

\* the while loop of parse_if, with `body` built so far
RECURSIVE if_body_loop(_, _, _)
if_body_loop(ts, body, p) ==
  IF ~peek(ts, p, "RBRACE")
  THEN Then(parse_stmt(ts, p), LAMBDA s : if_body_loop(ts, Append(body, s.node), s.pos))
  ELSE Ok(body, p)

parse_if(ts, p) ==
  Then(consume(ts, p, "IF"), LAMBDA c :
  Then(parse_expr(ts, c.pos), LAMBDA condition :
  Then(consume(ts, condition.pos, "LBRACE"), LAMBDA lb :
  Then(if_body_loop(ts, <<>>, lb.pos), LAMBDA body :
  Then(consume(ts, body.pos, "RBRACE"), LAMBDA rb :
  Ok([ty |-> "if", cond |-> condition.node, body |-> body.node], rb.pos))))))

parse_assignment(ts, p) ==
  Then(consume(ts, p, "IDENTIFIER"), LAMBDA var_name :
  Then(consume(ts, var_name.pos, "ASSIGN"), LAMBDA eq :
  Then(parse_expr(ts, eq.pos), LAMBDA expr :
  Ok([ty |-> "assign", name |-> var_name.node.value.s, expr |-> expr.node], expr.pos))))

parse_stmt(ts, p) ==
  IF peek(ts, p, "PRINT") THEN parse_print(ts, p)
  ELSE IF peek(ts, p, "IF") THEN parse_if(ts, p)
  ELSE IF peek(ts, p, "IDENTIFIER") /\ peek_next(ts, p, "ASSIGN") THEN parse_assignment(ts, p)
  ELSE RaiseAtToken("Invalid statement at token ", ts, p)

\* the while loop of parse, with `stmts` built so far
RECURSIVE parse_loop(_, _, _)
parse_loop(ts, stmts, p) ==
  IF p < Len(ts)
  THEN Then(parse_stmt(ts, p), LAMBDA s : parse_loop(ts, Append(stmts, s.node), s.pos))
  ELSE Ok(stmts, p)

\* parse with `if` in place of `while`: at most one statement is parsed
parse_first_stmt_only(ts) ==
  IF 0 < Len(ts)
  THEN Then(parse_stmt(ts, 0), LAMBDA s : Ok(<<s.node>>, s.pos))
  ELSE Ok(<<>>, 0)

\* Parser(tokens).parse(): pos starts at 0
parse(ts) == parse_loop(ts, <<>>, 0)

----------------------------------------------------------------------------
(* Interpreter: the Python operators eval_expr applies                      *)

PyNone == [ty |-> "NoneType"]

\* the printable ASCII characters, in code point order from 32 (the grave accent,
\* which a TLA+ string cannot hold, is spelled out: no source text here has it)
Printable ==
  <<
  " ", "!", "\"", "#", "$", "%", "&", "'", "(", ")", "*", "+", ",", "-", ".", "/",
  "0", "1", "2", "3", "4", "5", "6", "7", "8", "9", ":", ";", "<", "=", ">", "?",
  "@", "A", "B", "C", "D", "E", "F", "G", "H", "I", "J", "K", "L", "M", "N", "O",
  "P", "Q", "R", "S", "T", "U", "V", "W", "X", "Y", "Z", "[", "\\", "]", "^", "_",
  "grave", "a", "b", "c", "d", "e", "f", "g", "h", "i", "j", "k", "l", "m", "n", "o",
  "p", "q", "r", "s", "t", "u", "v", "w", "x", "y", "z", "{", "|", "}", "~"
  >>
\* ord(c)
Ord(c) == IF c = "\t" THEN 9
          ELSE IF c = "\n" THEN 10
          ELSE 31 + (CHOOSE k \in 1..Len(Printable) : Printable[k] = c)

\* a < b for two Python str
RECURSIVE StrLess(_, _)
StrLess(a, b) ==
  IF b = <<>> THEN FALSE
  ELSE IF a = <<>> THEN TRUE
  ELSE IF Head(a) = Head(b) THEN StrLess(Tail(a), Tail(b))
  ELSE Ord(Head(a)) < Ord(Head(b))

\* bool is a subclass of int: True is 1 and False is 0
IsNum(v) == v.ty \in {"int", "bool"}
Num(v) == IF v.ty = "bool" THEN (IF v.b THEN 1 ELSE 0) ELSE v.i

Value(v) == [ok |-> TRUE, v |-> v]
Raised(e) == [ok |-> FALSE, exc |-> e]
TypeError(msg) == Raise("TypeError", msg)
Unsupported(op, l, r) ==
  Raised(TypeError("unsupported operand type(s) for " \o op \o ": '" \o l.ty
                   \o "' and '" \o r.ty \o "'"))

\* s * n for a str s and an int n
RECURSIVE Repeat(_, _)
Repeat(cs, n) == IF n <= 0 THEN <<>> ELSE cs \o Repeat(cs, n - 1)

\* Python's // on ints, rounding toward zero instead
TruncDiv(a, b) ==
  LET q == (IF a < 0 THEN 0 - a ELSE a) \div (IF b < 0 THEN 0 - b ELSE b)
  IN IF (a < 0) # (b < 0) THEN 0 - q ELSE q

\* Python's // on ints: the quotient rounded toward negative infinity
FloorDiv(a, b) ==
  LET q == (IF a < 0 THEN 0 - a ELSE a) \div (IF b < 0 THEN 0 - b ELSE b)
      exact == q * (IF b < 0 THEN 0 - b ELSE b) = (IF a < 0 THEN 0 - a ELSE a)
  IN IF (a < 0) # (b < 0) THEN (IF exact THEN 0 - q ELSE 0 - q - 1) ELSE q

PyAdd(l, r) ==
  IF IsNum(l) /\ IsNum(r) THEN Value(PyInt(Num(l) + Num(r)))
  ELSE IF l.ty = "str" /\ r.ty = "str" THEN Value(PyStr(l.s \o r.s))
  ELSE IF l.ty = "str"
       THEN Raised(TypeError("can only concatenate str (not \"" \o r.ty \o "\") to str"))
  ELSE Unsupported("+", l, r)

PySub(l, r) ==
  IF IsNum(l) /\ IsNum(r) THEN Value(PyInt(Num(l) - Num(r)))
  ELSE Unsupported("-", l, r)

PyMul(l, r) ==
  IF IsNum(l) /\ IsNum(r) THEN Value(PyInt(Num(l) * Num(r)))
  ELSE IF l.ty = "str" /\ IsNum(r) THEN Value(PyStr(Repeat(l.s, Num(r))))
  ELSE IF IsNum(l) /\ r.ty = "str" THEN Value(PyStr(Repeat(r.s, Num(l))))
  ELSE IF l.ty = "str" /\ r.ty = "str"
       THEN Raised(TypeError("can't multiply sequence by non-int of type 'str'"))
  ELSE Unsupported("*", l, r)

PyFloorDiv(l, r) ==
  IF IsNum(l) /\ IsNum(r)
  THEN IF Num(r) = 0
       THEN Raised(Raise("ZeroDivisionError", "integer division or modulo by zero"))
       ELSE Value(PyInt(FloorDiv(Num(l), Num(r))))
  ELSE Unsupported("//", l, r)

\* the comparison sym, given whether left < right and whether left = right
Ordered(sym, lt, eq) ==
  CASE sym = "<"  -> lt
    [] sym = ">"  -> ~lt /\ ~eq
    [] sym = "<=" -> lt \/ eq
    [] sym = ">=" -> ~lt

\* l < r, l > r, l <= r, l >= r: ints by value, strs by code points
PyCompare(sym, l, r) ==
  IF IsNum(l) /\ IsNum(r)
  THEN Value(PyBool(Ordered(sym, Num(l) < Num(r), Num(l) = Num(r))))
  ELSE IF l.ty = "str" /\ r.ty = "str"
  THEN Value(PyBool(Ordered(sym, StrLess(l.s, r.s), l.s = r.s)))
  ELSE Raised(TypeError("'" \o sym \o "' not supported between instances of '"
                        \o l.ty \o "' and '" \o r.ty \o "'"))

PyEq(l, r) ==
  IF IsNum(l) /\ IsNum(r) THEN Value(PyBool(Num(l) = Num(r)))
  ELSE IF l.ty = "str" /\ r.ty = "str" THEN Value(PyBool(l.s = r.s))
  ELSE Value(PyBool(l.ty = "NoneType" /\ r.ty = "NoneType"))

\* the if/elif chain on op in eval_expr; no branch taken returns None
ApplyOp(op, l, r) ==
  IF op = <<"+">> THEN PyAdd(l, r)
  ELSE IF op = <<"-">> THEN PySub(l, r)
  ELSE IF op = <<"*">> THEN PyMul(l, r)
  ELSE IF op = <<"/">> THEN PyFloorDiv(l, r)
  ELSE IF op = <<">">> THEN PyCompare(">", l, r)
  ELSE IF op = <<"<">> THEN PyCompare("<", l, r)
  ELSE IF op = <<"=", "=">> THEN PyEq(l, r)
  ELSE IF op = <<">", "=">> THEN PyCompare(">=", l, r)
  ELSE IF op = <<"<", "=">> THEN PyCompare("<=", l, r)
  ELSE Value(PyNone)

RECURSIVE eval_expr(_, _)
eval_expr(expr, vs) ==
  IF expr.ty = "int" THEN Value(expr)
  ELSE IF expr.ty = "str" THEN Value(expr)
  ELSE IF expr.ty = "var"
       THEN Value(IF expr.name \in DOMAIN vs THEN vs[expr.name] ELSE PyInt(0))
  ELSE LET l == eval_expr(expr.left, vs)
           r == eval_expr(expr.right, vs)
       IN IF ~l.ok THEN l
          ELSE IF ~r.ok THEN r
          ELSE ApplyOp(expr.op, l.v, r.v)

\* str(value)
str(v) == IF v.ty = "int" THEN StrInt(v.i)
          ELSE IF v.ty = "str" THEN StrOf(v.s)
          ELSE IF v.ty = "bool" THEN (IF v.b THEN "True" ELSE "False")
          ELSE "None"

\* `if condition:` on a Python value
Truthy(v) == IF v.ty = "int" THEN v.i # 0
             ELSE IF v.ty = "str" THEN v.s # <<>>
             ELSE IF v.ty = "bool" THEN v.b
             ELSE FALSE

\* self.vars[var_name] = value
SetVar(vs, name, v) ==
  [n \in (DOMAIN vs) \cup {name} |-> IF n = name THEN v ELSE vs[n]]

\* '\n'.join(self.output)
RECURSIVE join(_)
join(out) == IF out = <<>> THEN ""
             ELSE IF Len(out) = 1 THEN out[1]
             ELSE out[1] \o "\n" \o join(Tail(out))

----------------------------------------------------------------------------
(* Interpreter: statements.  The recursion of eval_stmt is unfolded into    *)
(* `stack`: its head is the innermost active for-loop (the statements it    *)
(* has still to execute), its last frame the loop of Interpreter.run.       *)

EmptyVars == [n \in {} |-> PyNone]

\* Interpreter() keeping the dict of the previous instance
Interpreter_shared_vars == [vars |-> vars, output |-> <<>>]

\* Interpreter.__init__
Interpreter_init == [vars |-> EmptyVars, output |-> <<>>]

Effect(vs, out, stk, e) == [vars |-> vs, output |-> out, stack |-> stk, exc |-> e]

\* eval_stmt with an `if` body run against a copy of the store: an assignment
\* made inside a body is lost
eval_stmt_block_scoped(stmt, vs, out, rest) ==
  LET e == eval_expr(IF stmt.ty = "if" THEN stmt.cond ELSE stmt.expr, vs)
  IN IF ~e.ok THEN Effect(vs, out, rest, e.exc)
     ELSE IF stmt.ty = "print" THEN Effect(vs, Append(out, str(e.v)), rest, NoExc)
     ELSE IF stmt.ty = "if"
          THEN (IF Truthy(e.v) THEN Effect(vs, out, <<stmt.body>> \o rest, NoExc)
                ELSE Effect(vs, out, rest, NoExc))
     ELSE IF Len(rest) > 1 THEN Effect(vs, out, rest, NoExc)
     ELSE Effect(SetVar(vs, stmt.name, e.v), out, rest, NoExc)

\* one call of eval_stmt up to its first nested call: `rest` is the stack once
\* stmt is taken off the loop that runs it
eval_stmt(stmt, vs, out, rest) ==
  IF stmt.ty = "print"
  THEN LET value == eval_expr(stmt.expr, vs)
       IN IF value.ok THEN Effect(vs, Append(out, str(value.v)), rest, NoExc)
          ELSE Effect(vs, out, rest, value.exc)
  ELSE IF stmt.ty = "if"
  THEN LET condition == eval_expr(stmt.cond, vs)
       IN IF ~condition.ok THEN Effect(vs, out, rest, condition.exc)
          ELSE IF Truthy(condition.v) THEN Effect(vs, out, <<stmt.body>> \o rest, NoExc)
          ELSE Effect(vs, out, rest, NoExc)
  ELSE IF stmt.ty = "assign"
  THEN LET value == eval_expr(stmt.expr, vs)
       IN IF value.ok THEN Effect(SetVar(vs, stmt.name, value.v), out, rest, NoExc)
          ELSE Effect(vs, out, rest, value.exc)
  ELSE Effect(vs, out, rest, NoExc)

\* the exception classes that `except Exception` catches
ExceptionSubclasses ==
  {"SyntaxError", "IndexError", "TypeError", "ZeroDivisionError", "ValueError"}

Returned(r) == [phase |-> "done", result |-> r]
Propagates  == [phase |-> "raised", result |-> ""]

\* the handler returning the output printed so far before the error line
except_keeps_output(e) ==
  IF output = <<>> THEN Returned("Error: " \o e.msg)
  ELSE Returned(join(output) \o "\n" \o "Error: " \o e.msg)

\* except Exception as e: return f"Error: {str(e)}"
run_ezlang_except(e) ==
  IF e.type \in ExceptionSubclasses THEN Returned("Error: " \o e.msg) ELSE Propagates

----------------------------------------------------------------------------
(* Source texts                                                            *)

\* the snippets of `examples`

\* print "Hello, World!"
examples_hello ==
  <<"p","r","i","n","t"," ","\"","H","e","l","l","o",","," ","W","o","r","l","d","!",
    "\"">>

\* x = 10\nprint x\nx = x + 5\nprint x
examples_variables ==
  <<"x"," ","="," ","1","0","\n","p","r","i","n","t"," ","x","\n","x"," ","="," ","x",
    " ","+"," ","5","\n","p","r","i","n","t"," ","x">>

\* x = 10\nif x > 5 {\n  print "x is greater than 5"\n}
examples_if ==
  <<"x"," ","="," ","1","0","\n","i","f"," ","x"," ",">"," ","5"," ","{","\n"," "," ",
    "p","r","i","n","t"," ","\"","x"," ","i","s"," ","g","r","e","a","t","e","r"," ",
    "t","h","a","n"," ","5","\"","\n","}">>

\* a = 10\nb = 5\nprint a + b\nprint a - b\nprint a * b\nprint a / b
examples_math ==
  <<"a"," ","="," ","1","0","\n","b"," ","="," ","5","\n","p","r","i","n","t"," ","a",
    " ","+"," ","b","\n","p","r","i","n","t"," ","a"," ","-"," ","b","\n","p","r","i",
    "n","t"," ","a"," ","*"," ","b","\n","p","r","i","n","t"," ","a"," ","/"," ","b">>

\* further source texts run_ezlang is called with

\* x = 3\nif x > 5 {\n  print "no"\n}
SrcCondFalse ==
  <<"x"," ","="," ","3","\n","i","f"," ","x"," ",">"," ","5"," ","{","\n"," "," ","p",
    "r","i","n","t"," ","\"","n","o","\"","\n","}">>

\* a = -7\nb = 2\nprint a / b
SrcNegLiteral ==
  <<"a"," ","="," ","-","7","\n","b"," ","="," ","2","\n","p","r","i","n","t"," ","a",
    " ","/"," ","b">>

\* a = 0 - 7\nb = 2\nprint a / b
SrcZeroMinus ==
  <<"a"," ","="," ","0"," ","-"," ","7","\n","b"," ","="," ","2","\n","p","r","i","n",
    "t"," ","a"," ","/"," ","b">>

\* print y
SrcUnbound ==
  <<"p","r","i","n","t"," ","y">>

\* y = 7\nprint "set"
SrcBindY ==
  <<"y"," ","="," ","7","\n","p","r","i","n","t"," ","\"","s","e","t","\"">>

\* a = 1\nb = 0\nprint a / b
SrcDivZero ==
  <<"a"," ","="," ","1","\n","b"," ","="," ","0","\n","p","r","i","n","t"," ","a"," ",
    "/"," ","b">>

\* print 1\nprint 2 / 0
SrcPrintThenFail ==
  <<"p","r","i","n","t"," ","1","\n","p","r","i","n","t"," ","2"," ","/"," ","0">>

\* print 1 == 1
SrcPrintEq ==
  <<"p","r","i","n","t"," ","1"," ","=","="," ","1">>

\* if x == 0 {\n  print "zero"\n}
SrcIfEq ==
  <<"i","f"," ","x"," ","=","="," ","0"," ","{","\n"," "," ","p","r","i","n","t"," ",
    "\"","z","e","r","o","\"","\n","}">>

\* print 1 <= 2
SrcLessEq ==
  <<"p","r","i","n","t"," ","1"," ","<","="," ","2">>

\* print 2 * "ab"
SrcIntTimesText ==
  <<"p","r","i","n","t"," ","2"," ","*"," ","\"","a","b","\"">>

\* print "ab" * 2
SrcTextTimesInt ==
  <<"p","r","i","n","t"," ","\"","a","b","\""," ","*"," ","2">>

\* print 1 + "a"
SrcIntPlusText ==
  <<"p","r","i","n","t"," ","1"," ","+"," ","\"","a","\"">>

\* print "a" + 1
SrcTextPlusInt ==
  <<"p","r","i","n","t"," ","\"","a","\""," ","+"," ","1">>

\* print 1 - "a"
SrcIntMinusText ==
  <<"p","r","i","n","t"," ","1"," ","-"," ","\"","a","\"">>

\* print "a" - 1
SrcTextMinusInt ==
  <<"p","r","i","n","t"," ","\"","a","\""," ","-"," ","1">>

\* print 1 / "a"
SrcIntDivText ==
  <<"p","r","i","n","t"," ","1"," ","/"," ","\"","a","\"">>

\* print "a" / 1
SrcTextDivInt ==
  <<"p","r","i","n","t"," ","\"","a","\""," ","/"," ","1">>

\* print "a" + "b"
SrcTextPlusText ==
  <<"p","r","i","n","t"," ","\"","a","\""," ","+"," ","\"","b","\"">>

\* print
SrcBarePrint ==
  <<"p","r","i","n","t">>

\* if 1 {\n  print 1
SrcUnclosedIf ==
  <<"i","f"," ","1"," ","{","\n"," "," ","p","r","i","n","t"," ","1">>

\* x
SrcBareIdent ==
  <<"x">>

\* x =
SrcAssignNoExpr ==
  <<"x"," ","=">>

\* print (1
SrcUnclosedParen ==
  <<"p","r","i","n","t"," ","(","1">>

\* if 1 print 2
SrcIfNoBrace ==
  <<"i","f"," ","1"," ","p","r","i","n","t"," ","2">>

\* print a < b < c
SrcChained ==
  <<"p","r","i","n","t"," ","a"," ","<"," ","b"," ","<"," ","c">>

\* print (a < b < c)
SrcChainedParen ==
  <<"p","r","i","n","t"," ","(","a"," ","<"," ","b"," ","<"," ","c",")">>

\* if 1 {\n  if 2 {\n    x = 5\n  }\n  y = x + 1\n}\nprint x\nprint y
SrcNestedAssign ==
  <<"i","f"," ","1"," ","{","\n"," "," ","i","f"," ","2"," ","{","\n"," "," "," "," ",
    "x"," ","="," ","5","\n"," "," ","}","\n"," "," ","y"," ","="," ","x"," ","+"," ",
    "1","\n","}","\n","p","r","i","n","t"," ","x","\n","p","r","i","n","t"," ","y">>

\* x = 1\nif 0 {\n  x = 5\n  print "in"\n}\nprint x
SrcSkippedBody ==
  <<"x"," ","="," ","1","\n","i","f"," ","0"," ","{","\n"," "," ","x"," ","="," ","5",
    "\n"," "," ","p","r","i","n","t"," ","\"","i","n","\"","\n","}","\n","p","r","i",
    "n","t"," ","x">>

\* print 1 $ print 2
SrcGarbage ==
  <<"p","r","i","n","t"," ","1"," ","$"," ","p","r","i","n","t"," ","2">>

Programs ==
  {examples_hello, examples_variables, examples_if, examples_math, SrcCondFalse,
   SrcNegLiteral, SrcZeroMinus, SrcUnbound, SrcBindY, SrcDivZero, SrcPrintThenFail,
   SrcPrintEq, SrcIfEq, SrcLessEq, SrcIntTimesText, SrcTextTimesInt, SrcIntPlusText,
   SrcTextPlusInt, SrcIntMinusText, SrcTextMinusInt, SrcIntDivText, SrcTextDivInt,
   SrcTextPlusText, SrcBarePrint, SrcUnclosedIf, SrcBareIdent, SrcAssignNoExpr,
   SrcUnclosedParen, SrcIfNoBrace, SrcChained, SrcChainedParen, SrcNestedAssign,
   SrcSkippedBody, SrcGarbage}


MaxChars == 4
MaxFrags == 4

\* characters the generated texts are made of
LexAlphabet == {"a", "1", "=", "<", "$", "\"", " "}

\* lexemes the generated texts are made of
Lexemes ==
  {<<"p", "r", "i", "n", "t">>, <<"i", "f">>, <<"x">>, <<"1">>, <<"<">>, <<"=">>,
   <<"{">>, <<"}">>, <<"(">>, <<")">>}

SeqsUpTo(S, n) == UNION {[1..k -> S] : k \in 0..n}

RECURSIVE Flatten(_)
Flatten(ss) == IF ss = <<>> THEN <<>> ELSE Head(ss) \o Flatten(Tail(ss))

Generated ==
  SeqsUpTo(LexAlphabet, MaxChars) \cup {Flatten(ls) : ls \in SeqsUpTo(Lexemes, MaxFrags)}

----------------------------------------------------------------------------
(* run_ezlang, one step at a time                                          *)

NoCall == [called |-> FALSE, code |-> <<>>, result |-> ""]

PyIdle == phase \in {"idle", "done", "raised"}

\* run_ezlang(c) is entered: the frame's locals are unset, the objects of the
\* previous call are whatever it left
Enter(c) ==
  /\ code' = c
  /\ phase' = "lex"
  /\ tokens' = <<>>
  /\ pos' = 0
  /\ ast' = <<>>
  /\ stack' = <<>>
  /\ exc' = NoExc
  /\ result' = ""
  /\ last' = IF phase = "done" THEN [called |-> TRUE, code |-> code, result |-> result]
             ELSE last
  /\ UNCHANGED <<vars, output>>

Call ==
  /\ PyIdle
  /\ \E c \in Programs : Enter(c)
  /\ UNCHANGED vars_page

\* tokens = lex(code)
Lex ==
  /\ phase = "lex"
  /\ tokens' = lex(code)
  /\ phase' = "parse"
  /\ UNCHANGED <<code, pos, ast, vars, output, stack, exc, result, last>>
  /\ UNCHANGED vars_page

\* parser = Parser(tokens); ast = parser.parse()
Parse ==
  /\ phase = "parse"
  /\ LET r == parse(tokens)
     IN /\ pos' = r.pos
        /\ IF r.ok THEN ast' = r.node /\ exc' = exc /\ phase' = "construct"
           ELSE ast' = ast /\ exc' = r.exc /\ phase' = "except"
  /\ UNCHANGED <<code, tokens, vars, output, stack, result, last>>
  /\ UNCHANGED vars_page

\* interpreter = Interpreter(), and interpreter.run(ast) up to its loop
Construct ==
  /\ phase = "construct"
  /\ vars' = Interpreter_init.vars
  /\ output' = <<>>
  /\ stack' = <<ast>>
  /\ phase' = "run"
  /\ UNCHANGED <<code, tokens, pos, ast, exc, result, last>>
  /\ UNCHANGED vars_page

\* one iteration of a for-loop over statements, or the end of a body's loop
Step ==
  /\ phase = "run"
  /\ stack # <<>>
  /\ ~(Len(stack) = 1 /\ Head(stack) = <<>>)
  /\ IF Head(stack) = <<>>
     THEN /\ stack' = Tail(stack)
          /\ UNCHANGED <<vars, output, exc, phase>>
     ELSE LET stmt == Head(Head(stack))
              rest == <<Tail(Head(stack))>> \o Tail(stack)
              eff  == eval_stmt(stmt, vars, output, rest)
          IN /\ vars' = eff.vars
             /\ output' = eff.output
             /\ stack' = eff.stack
             /\ exc' = eff.exc
             /\ phase' = IF eff.exc = NoExc THEN "run" ELSE "except"
  /\ UNCHANGED <<code, tokens, pos, ast, result, last>>
  /\ UNCHANGED vars_page

\* return '\n'.join(self.output), which run_ezlang returns
RunReturn ==
  /\ phase = "run"
  /\ stack = <<<<>>>>
  /\ result' = join(output)
  /\ phase' = "done"
  /\ UNCHANGED <<code, tokens, pos, ast, vars, output, stack, exc, last>>
  /\ UNCHANGED vars_page

\* the except clause of run_ezlang
Except ==
  /\ phase = "except"
  /\ LET h == run_ezlang_except(exc)
     IN phase' = h.phase /\ result' = h.result
  /\ UNCHANGED <<code, tokens, pos, ast, vars, output, stack, exc, last>>
  /\ UNCHANGED vars_page

PageInit ==
  /\ onloadPc = "script"
  /\ pyodide = FALSE
  /\ defined = FALSE
  /\ jobs = <<>>
  /\ running = FALSE
  /\ editor = <<>>
  /\ display = [cls |-> "", text |-> ""]

PyInit ==
  /\ phase = "idle"
  /\ code = <<>>
  /\ tokens = <<>>
  /\ pos = 0
  /\ ast = <<>>
  /\ vars = EmptyVars
  /\ output = <<>>
  /\ stack = <<>>
  /\ exc = NoExc
  /\ result = ""
  /\ last = NoCall

Init == PyInit /\ PageInit

Pipeline == Lex \/ Parse \/ Construct \/ Step \/ RunReturn \/ Except

Next == Call \/ Pipeline

\* run_ezlang called any number of times, each time with one of Programs
Spec == Init /\ [][Next]_allvars

\* one call of run_ezlang with a generated text or one of Programs
InitGen ==
  /\ PageInit
  /\ phase = "lex"
  /\ code \in Generated \cup Programs
  /\ tokens = <<>>
  /\ pos = 0
  /\ ast = <<>>
  /\ vars = EmptyVars
  /\ output = <<>>
  /\ stack = <<>>
  /\ exc = NoExc
  /\ result = ""
  /\ last = NoCall

SpecGen == InitGen /\ [][Pipeline]_allvars

----------------------------------------------------------------------------
(* The page.  Every `await` of the onload handler and of runCode is a point *)
(* where other events of the page may run.  Python runs to completion      *)
(* inside one task: no page event runs while a call of run_ezlang is in     *)
(* progress, and the continuation of the runCode that awaits it runs before *)
(* any later event.                                                         *)

MaxPending == 2

examples(name) ==
  CASE name = "hello"     -> examples_hello
    [] name = "variables" -> examples_variables
    [] name = "if"        -> examples_if
    [] name = "math"      -> examples_math
ExampleNames == {"hello", "variables", "if", "math"}

\* texts typed into the editor
Typed == {<<>>, <<" ", "\n">>, SrcBarePrint}

\* !code.trim()
IsBlank(text) == \A k \in 1..Len(text) : text[k] \in SpaceSet

DefineJob == [kind |-> "define", code |-> <<>>]
RunJob(c) == [kind |-> "run", code |-> c]

LoadingMessage == [cls |-> "error", text |-> "Interpreter is still loading. Please wait..."]
EnterCodeMessage == [cls |-> "", text |-> "Please enter some code first."]
\* the catch of runCode; of the PythonError's traceback only the last line is kept
NameErrorMessage == [cls |-> "error", text |-> "Error: NameError: name 'run_ezlang' is not defined"]

PageIdle == PyIdle /\ ~running

\* the script element has loaded: onload starts and awaits loadPyodide()
OnloadStart ==
  /\ PageIdle
  /\ onloadPc = "script"
  /\ onloadPc' = "loadPyodide"
  /\ UNCHANGED <<pyodide, defined, jobs, running, editor, display>>
  /\ UNCHANGED vars_py

\* pyodide = await loadPyodide(), then loadPackagesFromImports is awaited
LoadPyodideDone ==
  /\ PageIdle
  /\ onloadPc = "loadPyodide"
  /\ pyodide' = TRUE
  /\ onloadPc' = "loadPackages"
  /\ UNCHANGED <<defined, jobs, running, editor, display>>
  /\ UNCHANGED vars_py

\* loadPackagesFromImports is done: runPythonAsync(<the interpreter>) is called
LoadPackagesDone ==
  /\ PageIdle
  /\ onloadPc = "loadPackages"
  /\ jobs' = Append(jobs, DefineJob)
  /\ onloadPc' = "define"
  /\ UNCHANGED <<pyodide, defined, running, editor, display>>
  /\ UNCHANGED vars_py

\* loadExample(name)
LoadExample ==
  /\ PageIdle
  /\ \E name \in ExampleNames : editor' = examples(name)
  /\ UNCHANGED <<onloadPc, pyodide, defined, jobs, running, display>>
  /\ UNCHANGED vars_py

\* the user edits the text
Type ==
  /\ PageIdle
  /\ \E text \in Typed : editor' = text
  /\ UNCHANGED <<onloadPc, pyodide, defined, jobs, running, display>>
  /\ UNCHANGED vars_py

\* runCode up to its await: a click on the run button, or Ctrl+Enter
RunCode ==
  /\ PageIdle
  /\ IF ~pyodide
     THEN display' = LoadingMessage /\ jobs' = jobs
     ELSE IF IsBlank(editor)
     THEN display' = EnterCodeMessage /\ jobs' = jobs
     ELSE /\ Len(jobs) < MaxPending
          /\ jobs' = Append(jobs, RunJob(editor))
          /\ display' = display
  /\ UNCHANGED <<onloadPc, pyodide, defined, running, editor>>
  /\ UNCHANGED vars_py

\* Pyodide executes the oldest pending runPythonAsync call
ExecJob ==
  /\ PageIdle
  /\ jobs # <<>>
  /\ jobs' = Tail(jobs)
  /\ LET job == Head(jobs)
     IN IF job.kind = "define"
        THEN /\ defined' = TRUE
             /\ onloadPc' = "loaded"
             /\ UNCHANGED <<running, display>>
             /\ UNCHANGED vars_py
        ELSE IF defined
        THEN /\ Enter(job.code)
             /\ running' = TRUE
             /\ UNCHANGED <<onloadPc, defined, display>>
        ELSE /\ display' = NameErrorMessage
             /\ UNCHANGED <<onloadPc, defined, running>>
             /\ UNCHANGED vars_py
  /\ UNCHANGED <<pyodide, editor>>

\* runCode after its await: the result, or the message of what was thrown
FinishRun ==
  /\ running
  /\ PyIdle
  /\ running' = FALSE
  /\ display' = IF phase = "done" THEN [cls |-> "", text |-> result]
                ELSE [cls |-> "error", text |-> "Error: " \o exc.msg]
  /\ UNCHANGED <<onloadPc, pyodide, defined, jobs, editor>>
  /\ UNCHANGED vars_py

PageNext ==
  \/ OnloadStart \/ LoadPyodideDone \/ LoadPackagesDone
  \/ LoadExample \/ Type \/ RunCode \/ ExecJob \/ FinishRun
  \/ Pipeline

\* the page: Pyodide loading while the user loads examples, types and runs
SpecPage == Init /\ [][PageNext]_allvars

----------------------------------------------------------------------------
(* Properties                                                              *)

Done(c) == phase = "done" /\ code = c

\* the call has got past lexing, past parsing
Lexed == phase \notin {"idle", "lex"}
ParseFailed == phase \in {"except", "done"} /\ exc # NoExc /\ stack = <<>>

\* C1: run_ezlang returns a string and never raises.  When every stage succeeds it
\* returns the display strings of the executed prints, in order, joined with "\n"
\* (the empty string when nothing was printed); when a stage fails it returns
\* exactly "Error: " followed by the message, with none of the output printed
\* before the failure.
C1_ReturnsOutputOrErrorLine ==
  /\ phase # "raised"
  /\ phase = "done" =>
       /\ result \in STRING
       /\ exc = NoExc => result = join(output)
       /\ exc # NoExc => result = "Error: " \o exc.msg
  /\ Done(examples_hello) => result = "Hello, World!"
  /\ Done(examples_variables) => output = <<"10", "15">> /\ result = "10\n15"
  /\ Done(examples_math) => result = "15\n5\n50\n2"
  /\ Done(SrcCondFalse) => exc = NoExc /\ result = ""
  /\ Done(SrcPrintThenFail) =>
       output = <<"1">> /\ result = "Error: integer division or modulo by zero"
  /\ Done(SrcChained) => result = "Error: Invalid statement at token ('COMPARE', '<')"

C1_Witness ==
  /\ Done(SrcPrintThenFail)
  /\ output = <<"1">>
  /\ result = "Error: integer division or modulo by zero"

\* C2 as stated: `a = -7`, `b = 2`, `print a / b` returns -4.
C2_NegativeLiteralProgramReturnsMinus4 == Done(SrcNegLiteral) => result = "-4"

\* C2 as amended: with -7 written `0 - 7` the program returns -4, the quotient
\* rounded toward negative infinity; with the literal written `-7` the parse fails
\* at the `-`, because Primary has no leading minus.
C2_FloorDivisionOfZeroMinusSeven ==
  /\ Done(SrcZeroMinus) => result = "-4"
  /\ Done(SrcNegLiteral) => result = "Error: Unexpected token: ('OP', '-')"

C2_Witness == Done(SrcZeroMinus) /\ result = "-4" /\ vars[<<"a">>] = PyInt(-7)

\* C3: `==` is lexed as one COMPARE token with value `==`, so `L == R` parses to a
\* BinaryOp `==` and evaluates to the equality of the operands.
C3_DoubleEqualsIsOneCompareToken ==
  /\ \A k \in 1..(Len(tokens) - 1) :
       ~(tokens[k].kind = "ASSIGN" /\ tokens[k + 1].kind = "ASSIGN")
  /\ (Lexed /\ code = SrcPrintEq) =>
       tokens = <<Token("PRINT", <<"p", "r", "i", "n", "t">>), Token("NUMBER", <<"1">>),
                  Token("COMPARE", <<"=", "=">>), Token("NUMBER", <<"1">>)>>
  /\ Done(SrcPrintEq) => result = "True"
  /\ Done(SrcIfEq) => result = "zero"

\* the positions the scan reaches at which no pattern of token_specs matches
RECURSIVE UnmatchedFrom(_, _)
UnmatchedFrom(src, p) ==
  IF p > Len(src) THEN {}
  ELSE LET m == MatchAt(src, p)
       IN IF m.kind = "NONE" THEN {p} \cup UnmatchedFrom(src, finditer_resume(src, p))
          ELSE UnmatchedFrom(src, m.end + 1)
Unmatched(src) == UnmatchedFrom(src, 1)
Before(src, i) == SubSeq(src, 1, i - 1)
After(src, i) == SubSeq(src, i + 1, Len(src))

\* C4 as stated: at the first character that matches no pattern the scan stops, and
\* the tokens are exactly those of the text before that character.
C4_ScanStopsAtUnmatchedCharacter ==
  (Lexed /\ Unmatched(code) # {}) =>
    LET i == CHOOSE i \in Unmatched(code) : \A j \in Unmatched(code) : i <= j
    IN tokens = lex(Before(code, i))

\* C4 as amended: a character at which no pattern matches is dropped alone and the
\* scan resumes behind it: the tokens are those of the text before the character
\* followed by those of the text after it.
C4_UnmatchedCharacterIsSkipped ==
  Lexed => \A i \in Unmatched(code) :
             tokens = lex(Before(code, i)) \o lex(After(code, i))

C4_Witness ==
  /\ phase = "parse"
  /\ code = <<"a", "$", "a">>
  /\ Unmatched(code) = {2}
  /\ tokens = <<Token("IDENTIFIER", <<"a">>), Token("IDENTIFIER", <<"a">>)>>

\* the statement the innermost loop executes next
AtStmt == phase = "run" /\ stack # <<>> /\ Head(stack) # <<>>
NextStmt == Head(Head(stack))
Rest == <<Tail(Head(stack))>> \o Tail(stack)
Arithmetic == {<<"+">>, <<"-">>, <<"*">>, <<"/">>}
MixedPrograms ==
  {SrcIntTimesText, SrcTextTimesInt, SrcIntPlusText, SrcTextPlusInt, SrcIntMinusText,
   SrcTextMinusInt, SrcIntDivText, SrcTextDivInt}

\* C5: for each of + - * /, a BinaryOp with one Integer and one Text operand fails
\* with a runtime error, so run_ezlang returns an "Error: ..." string; only
\* Text + Text succeeds on Text.
C5_MixedArithmeticFails ==
  /\ (AtStmt /\ NextStmt.ty \in {"print", "assign"} /\ NextStmt.expr.ty = "bin"
        /\ NextStmt.expr.op \in Arithmetic) =>
       LET l == eval_expr(NextStmt.expr.left, vars)
           r == eval_expr(NextStmt.expr.right, vars)
       IN (l.ok /\ r.ok /\ {l.v.ty, r.v.ty} = {"int", "str"}) =>
            ~eval_expr(NextStmt.expr, vars).ok
  /\ \A c \in MixedPrograms :
       Done(c) => exc.type = "TypeError" /\ result = "Error: " \o exc.msg
  /\ Done(SrcTextPlusText) => result = "ab"

\* C6: in each of the three parser failure cases (no statement starts at the
\* current token; an expected kind is absent at a consume; the tokens run out in
\* the middle of a construct) the parse fails with a syntax error whose message
\* carries the offending or the expected token kind.
C6_ParseFailuresAreSyntaxErrors ==
  ParseFailed =>
    /\ exc.type = "SyntaxError"
    /\ \E k \in 1..Len(token_specs) :
         exc.msg \in
           {"Expected " \o token_specs[k] \o ", got " \o tokens[pos + 1].kind,
            "Expected " \o token_specs[k] \o ", got end of input",
            "Invalid statement at token " \o ReprToken(tokens[pos + 1]),
            "Unexpected token: " \o ReprToken(tokens[pos + 1])}

\* C7: parse either returns with every token consumed or fails; it never returns
\* with tokens left over.  A second comparison operator right behind a complete
\* comparison makes the parse fail.
C7_ParseConsumesAllOrFails ==
  /\ phase \in {"construct", "run"} => pos = Len(tokens)
  /\ (phase = "done" /\ ~ParseFailed) => pos = Len(tokens)
  /\ (Lexed /\ phase # "parse"
        /\ \E k \in 1..(Len(tokens) - 2) :
             /\ tokens[k].kind = "COMPARE"
             /\ tokens[k + 1].kind \in {"NUMBER", "STRING", "IDENTIFIER"}
             /\ tokens[k + 2].kind = "COMPARE") => ParseFailed
  /\ (Done(SrcChained) \/ Done(SrcChainedParen)) => ParseFailed /\ exc.type = "SyntaxError"

C7_Witness ==
  /\ phase = "except"
  /\ code = SrcChained
  /\ pos = 4
  /\ Len(tokens) = 6
  /\ tokens[pos + 1].kind = "COMPARE"

\* C8: an `if` runs its body against the store of the enclosing program.  With a
\* truthy condition the body is entered with the store as it is, every assignment
\* in a body, at any depth, writes that store, and leaving a body changes nothing,
\* so the assignments are visible behind the `if`; with a condition that is not
\* truthy the `if` leaves the store and the output buffer unchanged.
C8_IfSharesTheStore ==
  /\ [][(AtStmt /\ NextStmt.ty = "if" /\ eval_expr(NextStmt.cond, vars).ok) =>
          /\ vars' = vars
          /\ output' = output
          /\ phase' = "run"
          /\ stack' = IF Truthy(eval_expr(NextStmt.cond, vars).v)
                      THEN <<NextStmt.body>> \o Rest ELSE Rest]_allvars
  /\ [][(AtStmt /\ NextStmt.ty = "assign" /\ eval_expr(NextStmt.expr, vars).ok) =>
          /\ vars' = SetVar(vars, NextStmt.name, eval_expr(NextStmt.expr, vars).v)
          /\ stack' = Rest]_allvars
  /\ [][(phase = "run" /\ Len(stack) > 1 /\ Head(stack) = <<>>) =>
          vars' = vars /\ output' = output /\ stack' = Tail(stack)]_allvars
  /\ [](Done(SrcNestedAssign) => result = "5\n6")
  /\ [](Done(SrcSkippedBody) => result = "1")
  /\ [](Done(examples_if) => result = "x is greater than 5")

C8_Witness ==
  /\ Done(SrcNestedAssign)
  /\ vars[<<"x">>] = PyInt(5)
  /\ vars[<<"y">>] = PyInt(6)
  /\ result = "5\n6"

\* C9: no state survives across runs: the result of a call depends on its own
\* source text only.  The same text run twice in a row gives the same result, a
\* variable bound by one run reads as 0 in the next, and no output of an earlier
\* run shows in a later one.
C9_NoStateAcrossRuns ==
  /\ (phase = "done" /\ last.called /\ last.code = code) => result = last.result
  /\ Done(SrcUnbound) => result = "0"
  /\ Done(SrcBindY) => result = "set"
  /\ (phase = "run" /\ stack = <<ast>>) => vars = EmptyVars /\ output = <<>>

C9_Witness ==
  /\ Done(SrcUnbound)
  /\ last = [called |-> TRUE, code |-> SrcBindY, result |-> "set"]
  /\ result = "0"

\* C10: whenever a runCode that passed the `!pyodide` guard has its
\* run_ezlang(...) evaluated, the onload handler's definition of run_ezlang has
\* been installed; a run asked for earlier shows the loading message only.
C10_RunFindsInterpreterDefined ==
  [][(PageIdle /\ jobs # <<>> /\ Head(jobs).kind = "run" /\ jobs' = Tail(jobs))
       => defined /\ display' # NameErrorMessage]_allvars

====
